---- MODULE Spec2Model ----
(***************************************************************************)
(* Model of main_cisco.py: the Bundle-Ether parser, the utilization        *)
(* classifier, the capacity-mismatch detector and the device loop of main. *)
(*                                                                         *)
(* Representation.                                                         *)
(*  - Python's None is the empty sequence, a present value v is <<v>>.     *)
(*  - Text that the code compares character by character (peer names,      *)
(*    device types, host names) is a sequence of one-character strings.    *)
(*  - A line of router output is a sequence of tokens; each regular        *)
(*    expression of the parser is modelled by what it matches on tokens.   *)
(*  - Rates are integers in kbit/s: the conversion factors 1e9 (G tag),    *)
(*    1e3 (Kbit field) and 1 (bits/sec) become 1000000, 1 and 1/1000, and  *)
(*    the bits/sec numerals of the inputs are multiples of 1000.           *)
(*  - A float quotient a/b is the exact pair [num |-> a, den |-> b];       *)
(*    comparisons cross-multiply.                                          *)
(***************************************************************************)
EXTENDS Integers, Sequences, FiniteSets, TLC

VARIABLES
    pc,          \* position of the program being run
    stage,       \* position inside collect_device and parse_cisco_xr
    peer,        \* args.peer / the peer argument of parse_cisco_xr
    \* ---- pure-function harness (classify_util, capacity_mismatch)
    util,        \* argument of classify_util
    conf_bps,    \* first argument of capacity_mismatch
    avail_bps,   \* second argument of capacity_mismatch
    utilRes,     \* <<>> or <<result of classify_util(util)>>
    mmRes,       \* <<>> or <<result of capacity_mismatch(conf_bps, avail_bps)>>
    \* ---- parse_cisco_xr
    output,      \* raw output: sequence of lines
    blocks,      \* result of re.split
    bi,          \* index of the block the for loop is at
    rows,        \* the list being built / returned
    \* ---- main
    invKind,     \* what the inventory file holds
    devices,     \* the device list the inventory holds for args.peer
    idx,         \* index of the device the loop of main is at
    out,         \* <<>> or <<value returned by send_command>>
    open,        \* devices whose remote session is open
    calls,       \* per device, the collection steps made and their outcomes
    sections,    \* the sections list of main
    prompted,    \* credentials were asked for
    stderrMsgs,  \* number of error reports written to standard error
    exitCode,    \* <<>> while running, <<code>> after the process ended
    report       \* <<>> or <<the report that was written>>

vars == <<pc, stage, peer, util, conf_bps, avail_bps, utilRes, mmRes,
          output, blocks, bi, rows,
          invKind, devices, idx, out, open, calls, sections,
          prompted, stderrMsgs, exitCode, report>>

fnVars    == <<util, conf_bps, avail_bps, utilRes, mmRes>>
parseVars == <<output, blocks, bi, rows>>
mainVars  == <<invKind, devices, idx, out, open, calls, sections,
               prompted, stderrMsgs, exitCode, report>>

None == <<>>
Some(v) == <<v>>

---------------------------------------------------------------------------
(* Thresholds, lines 12-14, as percentages.                                *)
GREEN_MAX_PCT == 60
ORANGE_MAX_PCT == 80
MISMATCH_TOL_PCT == 2

Abs(x) == IF x < 0 THEN -x ELSE x
Max(a, b) == IF a >= b THEN a ELSE b

Ratio(a, b) == [num |-> a, den |-> b]

(* classify_util, lines 91-100.  pct = util * 100.0 is compared with      *)
(* GREEN_MAX * 100 and ORANGE_MAX * 100; den > 0 for every ratio.          *)
(* The display string is the placeholder glyph or the percentage value     *)
(* that is printed; the digits of its one-decimal rendering are not        *)
(* modelled.                                                               *)
PctLess(u, p) == u.num * 100 < p * u.den
PctLeq(u, p)  == u.num * 100 <= p * u.den

(* Faulty variant: the lower bound 0.60 of the band counted as normal.     *)
GreenTestMut(u) == PctLeq(u, GREEN_MAX_PCT)
GreenTest(u) == PctLess(u, GREEN_MAX_PCT)

PctStr(u) == << "pct", u.num * 100, u.den >>
Glyph == << "glyph", 0, 0 >>

classify_util(u) ==
    IF u = None THEN [cls |-> "", str |-> Glyph]
    ELSE IF GreenTest(u[1]) THEN [cls |-> "util-green", str |-> PctStr(u[1])]
    ELSE IF PctLeq(u[1], ORANGE_MAX_PCT)
         THEN [cls |-> "util-orange", str |-> PctStr(u[1])]
    ELSE [cls |-> "util-red", str |-> PctStr(u[1])]

(* Python truthiness of an optional number: None and 0 are false.          *)
Truthy(x) == x # None /\ x[1] # 0

(* capacity_mismatch, lines 102-105.                                       *)
(* abs(c - a) / max(c, a) > 0.02 with max(c, a) > 0.                       *)
(* Faulty variant: a difference of exactly 2% counted as a mismatch.       *)
OverTolMut(c, a) == Abs(c - a) * 100 >= MISMATCH_TOL_PCT * Max(c, a)
OverTol(c, a) == Abs(c - a) * 100 > MISMATCH_TOL_PCT * Max(c, a)

capacity_mismatch(c, a) ==
    IF ~Truthy(c) \/ ~Truthy(a) THEN FALSE
    ELSE OverTol(c[1], a[1])

---------------------------------------------------------------------------
(* Text.                                                                   *)
Upper == << "A", "B", "C", "I", "O", "R", "S", "X", "J", "N", "U" >>
LowerOf == << "a", "b", "c", "i", "o", "r", "s", "x", "j", "n", "u" >>
Chars == { Upper[i] : i \in DOMAIN Upper } \cup { LowerOf[i] : i \in DOMAIN LowerOf }
           \cup { "_", "-", "1", "2" }

(* str.lower() / re.I on one character, then on a string.                  *)
LowerMap ==
    [c \in Chars |->
        IF \E i \in DOMAIN Upper : Upper[i] = c
        THEN LowerOf[CHOOSE i \in DOMAIN Upper : Upper[i] = c]
        ELSE c]
LowerChar(c) == LowerMap[c]
Lower(s) == [i \in DOMAIN s |-> LowerChar(s[i])]

Min(S) == CHOOSE x \in S : \A y \in S : x <= y

(* A token of a line: kind t, text payload s, numeric payload n.           *)
(*   ifname     Bundle-Ether<s> at the start of a line                     *)
(*   isup       " is up, line protocol is"                                 *)
(*   isdown     " is down, line protocol is"                               *)
(*   desclabel  "Description:"                                             *)
(*   name       "[NAME=<s>]"                                               *)
(*   bwtag      "[BW=<n>G]"                                                *)
(*   bwkbit     "BW <n> Kbit"                                              *)
(*   rate       "30 second input rate <n> bits/sec"                        *)
(*   word       any other text                                             *)
Tok(t, s, n) == [t |-> t, s |-> s, n |-> n]

(* Conversion factors of lines 135, 139 and 143, in kbit/s.                *)
GIGA == 1000000
KBIT == 1
BITS_PER_K == 1000

(* The first token of kind t in a token sequence: re.search takes the      *)
(* leftmost match.                                                         *)
FirstTok(toks, t) ==
    LET I == {i \in DOMAIN toks : toks[i].t = t}
    IN IF I = {} THEN None ELSE Some(toks[Min(I)])

(* Line 114: a line matches ^Bundle-Ether[^\n]* is up, line protocol is.   *)
IsBoundary(line) ==
    /\ Len(line) >= 2
    /\ line[1].t = "ifname"
    /\ \E j \in 2..Len(line) : line[j].t = "isup"

(* Line 114: re.split on the zero-width lookahead.  The first piece is the *)
(* text before the first boundary (empty when the text starts with one);   *)
(* every boundary line starts the next piece.                              *)
Boundaries(lines) == {i \in DOMAIN lines : IsBoundary(lines[i])}
Split(lines) ==
    LET B == Boundaries(lines)
        n == Cardinality(B)
        Start(k) == IF k = 1 THEN 1
                    ELSE CHOOSE b \in B : Cardinality({x \in B : x < b}) = k - 2
        End(k) == IF k = n + 1 THEN Len(lines) ELSE Start(k + 1) - 1
    IN [k \in 1..(n + 1) |-> SubSeq(lines, Start(k), End(k))]

(* The first token of kind t in the text of a block.                       *)
FirstTokIn(blk, t) ==
    LET L == {i \in DOMAIN blk : FirstTok(blk[i], t) # None}
    IN IF L = {} THEN None ELSE FirstTok(blk[Min(L)], t)

(* Line 116: blk.strip() is empty.                                         *)
IsBlank(blk) == \A i \in DOMAIN blk : blk[i] = <<>>

(* Line 120: ^(Bundle-Ether\S+) with re.M, the first line of the block     *)
(* that starts with an interface name.                                     *)
IfName(blk) ==
    LET I == {i \in DOMAIN blk : blk[i] # <<>> /\ blk[i][1].t = "ifname"}
    IN IF I = {} THEN None ELSE Some(blk[Min(I)][1].s)

(* Lines 126-127: ^\s*Description:\s*(.+)$ with re.M.  \s* also matches    *)
(* line breaks, so when nothing follows the label on its own line the      *)
(* group captures the following line of the block; with no following line  *)
(* there is no match and desc is "".                                       *)
IsDescLine(line) == line # <<>> /\ line[1].t = "desclabel"
DescMatches(blk, i) ==
    IsDescLine(blk[i]) /\ (Len(blk[i]) > 1 \/ i < Len(blk))
DescAt(blk, i) == IF Len(blk[i]) > 1 THEN Tail(blk[i]) ELSE blk[i + 1]
Desc(blk) ==
    LET I == {i \in DOMAIN blk : DescMatches(blk, i)}
    IN IF I = {} THEN <<>> ELSE DescAt(blk, Min(I))

(* Line 130: re.search(rf"\[NAME={re.escape(peer)}\]", desc, re.I).        *)
SameName(a, b) == Lower(a) = Lower(b)
HasPeerTag(desc, p) ==
    \E i \in DOMAIN desc : desc[i].t = "name" /\ SameName(desc[i].s, p)

(* Lines 134-135.                                                          *)
ConfBps(desc) ==
    LET m == FirstTok(desc, "bwtag")
    IN IF m = None THEN None ELSE Some(m[1].n * GIGA)

(* Lines 138-139.                                                          *)
AvailBps(blk) ==
    LET m == FirstTokIn(blk, "bwkbit")
    IN IF m = None THEN None ELSE Some(m[1].n * KBIT)

(* Lines 142-143.                                                          *)
MaxInBps(blk) ==
    LET m == FirstTokIn(blk, "rate")
    IN IF m = None THEN None ELSE Some(m[1].n \div BITS_PER_K)

(* Line 145: util = (max_in_bps/avail_bps) if (max_in_bps and avail_bps)   *)
(* else None.                                                              *)
(* Faulty variant: an absent operand defaulted to zero.                    *)
UtilOfMut(max_in, avail) ==
    IF avail = None \/ avail[1] = 0 THEN Some(Ratio(0, 1))
    ELSE IF max_in = None THEN Some(Ratio(0, avail[1]))
    ELSE Some(Ratio(max_in[1], avail[1]))
UtilOf(max_in, avail) ==
    IF Truthy(max_in) /\ Truthy(avail)
    THEN Some(Ratio(max_in[1], avail[1]))
    ELSE None

(* Lines 116-154: one iteration of the for loop, the rows it appends.      *)
ParseBlock(blk, p) ==
    IF IsBlank(blk) THEN <<>>
    ELSE IF IfName(blk) = None THEN <<>>
    ELSE IF ~HasPeerTag(Desc(blk), p) THEN <<>>
    ELSE << [ifname        |-> IfName(blk)[1],
             desc          |-> Desc(blk),
             conf_bps      |-> ConfBps(Desc(blk)),
             avail_bps     |-> AvailBps(blk),
             max_input_bps |-> MaxInBps(blk),
             util          |-> UtilOf(MaxInBps(blk), AvailBps(blk))] >>


---------------------------------------------------------------------------
(* Bounds and input sets.                                                  *)
MaxUtilNum == 12
MaxUtilDen == 10
MaxCap == 105
MaxLines == 4
MaxDevices == 2

Peers == { << "a", "b" >>, << "A", "b" >> }

IfUp    == << Tok("ifname", << "1" >>, 0), Tok("isup", <<>>, 0) >>
IfDown  == << Tok("ifname", << "2" >>, 0), Tok("isdown", <<>>, 0) >>
DescTagged == << Tok("desclabel", <<>>, 0), Tok("name", << "A", "B" >>, 0),
                 Tok("bwtag", <<>>, 1) >>
DescOther  == << Tok("desclabel", <<>>, 0), Tok("name", << "a", "c" >>, 0),
                 Tok("bwtag", <<>>, 2) >>
DescEmpty  == << Tok("desclabel", <<>>, 0) >>
TextTagged == << Tok("word", <<>>, 0), Tok("name", << "a", "b" >>, 0) >>
BwLine     == << Tok("word", <<>>, 0), Tok("bwkbit", <<>>, 1000000) >>
BwZero     == << Tok("word", <<>>, 0), Tok("bwkbit", <<>>, 0) >>
RateZero   == << Tok("rate", <<>>, 0), Tok("word", <<>>, 0) >>
RateSome   == << Tok("rate", <<>>, 850000000), Tok("word", <<>>, 0) >>
RateOver   == << Tok("rate", <<>>, 1500000000), Tok("word", <<>>, 0) >>

LineSet == { IfUp, IfDown, DescTagged, DescOther, DescEmpty, TextTagged,
             BwLine, BwZero, RateZero, RateSome, RateOver }

SeqsUpTo(S, n) == UNION { [1..k -> S] : k \in 0..n }

UtilInputs ==
    { None } \cup { Some(Ratio(n, d)) : n \in 0..MaxUtilNum, d \in 1..MaxUtilDen }
CapInputs == { None } \cup { Some(c) : c \in 0..MaxCap }

IdleFn    == /\ util = None /\ conf_bps = None /\ avail_bps = None
             /\ utilRes = None /\ mmRes = None
IdleParse == /\ output = <<>> /\ blocks = <<>> /\ bi = 1 /\ rows = <<>>
IdleMain  == /\ invKind = "none" /\ devices = <<>> /\ idx = 1
             /\ out = None /\ open = {}
             /\ calls = <<>> /\ sections = <<>> /\ prompted = FALSE
             /\ stderrMsgs = 0 /\ exitCode = None /\ report = None

---------------------------------------------------------------------------
(* The two pure functions applied to drawn arguments.                      *)
FnInit ==
    /\ peer \in Peers
    /\ \/ /\ pc = "classify"
          /\ util \in UtilInputs
          /\ conf_bps = None /\ avail_bps = None
       \/ /\ pc = "mismatch"
          /\ util = None
          /\ conf_bps \in CapInputs /\ avail_bps \in CapInputs
    /\ stage = "none"
    /\ utilRes = None /\ mmRes = None
    /\ IdleParse /\ IdleMain

Classify ==
    /\ pc = "classify"
    /\ utilRes' = Some(classify_util(util))
    /\ pc' = "classified"
    /\ UNCHANGED <<stage, peer, util, conf_bps, avail_bps, mmRes, parseVars,
                   mainVars>>

Mismatch ==
    /\ pc = "mismatch"
    /\ mmRes' = Some(capacity_mismatch(conf_bps, avail_bps))
    /\ pc' = "judged"
    /\ UNCHANGED <<stage, peer, util, conf_bps, avail_bps, utilRes, parseVars,
                   mainVars>>

FnNext == Classify \/ Mismatch
FnSpec == FnInit /\ [][FnNext]_vars

---------------------------------------------------------------------------
(* parse_cisco_xr, lines 111-155, one block per step.  The steps run on    *)
(* output, both when the function is applied to a drawn raw output and     *)
(* when collect_device calls it.                                           *)
ParseInit ==
    /\ pc = "parse_cisco_xr"
    /\ stage = "split"
    /\ peer \in Peers
    /\ output \in SeqsUpTo(LineSet, MaxLines)
    /\ blocks = <<>> /\ bi = 1 /\ rows = <<>>
    /\ IdleFn /\ IdleMain

(* Lines 112-114.                                                          *)
ParseSplit ==
    /\ stage = "split"
    /\ blocks' = Split(output)
    /\ bi' = 1
    /\ rows' = <<>>
    /\ stage' = "blocks"
    /\ UNCHANGED <<pc, peer, output, fnVars, mainVars>>

(* Lines 115-154, one iteration.                                           *)
ParseLoop ==
    /\ stage = "blocks"
    /\ bi <= Len(blocks)
    /\ rows' = rows \o ParseBlock(blocks[bi], peer)
    /\ bi' = bi + 1
    /\ UNCHANGED <<pc, stage, peer, output, blocks, fnVars, mainVars>>

(* Line 155.                                                               *)
ParseReturn ==
    /\ stage = "blocks"
    /\ bi > Len(blocks)
    /\ stage' = "returned"
    /\ UNCHANGED <<pc, peer, parseVars, fnVars, mainVars>>

ParseNext == ParseSplit \/ ParseLoop \/ ParseReturn
ParseSpec == ParseInit /\ [][ParseNext]_vars

---------------------------------------------------------------------------
(* Report building, lines 158-186.  A rendered row keeps the interface     *)
(* name, the description and the two classifications; the formatted        *)
(* capacities of human_bps and the markup are left out.                    *)
RenderRow(r) ==
    [rowcls  |-> IF capacity_mismatch(r.conf_bps, r.avail_bps)
                 THEN "cap-mismatch" ELSE "",
     ifname  |-> r.ifname,
     desc    |-> r.desc,
     utilcls |-> classify_util(r.util).cls,
     util    |-> classify_util(r.util).str]

(* device_table, lines 158-173.                                            *)
device_table(rs) ==
    [nomatch |-> rs = <<>>,
     rows    |-> [k \in DOMAIN rs |-> RenderRow(rs[k])]]

(* device_section, lines 175-176.                                          *)
device_section(name, rs) ==
    [name |-> name, platform |-> "cisco_xr", count |-> Len(rs),
     table |-> device_table(rs)]

(* build_html, lines 178-186.                                              *)
build_html(p, secs) == [peer |-> p, devcount |-> Len(secs), sections |-> secs]

(* Lines 203, 205, 207, 213: the error list of collect_device, one message *)
(* "<host>: <reason>: <e>".                                                *)
ErrMsg(host, reason) == Tok(reason, host, 0)

(* Lines 250-259: the single row main shows for a failed device.           *)
err_rows(errs) ==
    << [ifname |-> << "-" >>, desc |-> errs, conf_bps |-> None,
        avail_bps |-> None, max_input_bps |-> None, util |-> None] >>

(* Lines 250-261: the section main appends for the pair (rows, errs).      *)
SectionFor(host, rs, errs) ==
    IF errs # <<>> /\ rs = <<>>
    THEN device_section(host, err_rows(errs))
    ELSE device_section(host, rs)

(* Line 246.                                                               *)
CiscoXr    == << "c", "i", "s", "c", "o", "_", "x", "r" >>
IosXr      == << "i", "o", "s", "x", "r" >>
CiscoIosXr == << "c", "i", "s", "c", "o", "-", "i", "o", "s", "x", "r" >>
(* Faulty variant: the platform compared without .lower().                 *)
SupportedMut(dt) == dt \in { CiscoXr, IosXr, CiscoIosXr }
Supported(dt) == Lower(dt) \in { CiscoXr, IosXr, CiscoIosXr }

(* Lines 224-237: the inventory states on which main exits with code 2.    *)
(* Faulty variant: the empty device list of line 235 not checked.          *)
InputErrorMut(kind) == kind \in { "unreadable", "nopeers", "nopeer" }
InputError(kind) == kind \in { "unreadable", "nopeers", "nopeer", "empty" }

---------------------------------------------------------------------------
(* Inputs of main.                                                         *)
(* The i-th device of an inventory is the host r<i>.                       *)
Digits == << "1", "2", "3", "4", "5", "6" >>
HostAt(i) == << "r", Digits[i] >>
DeviceTypes == { CiscoXr, << "I", "O", "S", "X", "R" >>,
                 << "j", "u", "n", "o", "s" >> }
Inventories ==
    { [i \in DOMAIN f |-> [host |-> HostAt(i), device_type |-> f[i]]] :
        f \in UNION { [1..n -> DeviceTypes] : n \in 1..MaxDevices } }
InvKinds == { "unreadable", "null", "nopeers", "nopeer", "empty", "ok" }

MainPeer == << "a", "b" >>

OutMatch   == << IfUp, DescTagged, BwLine, RateSome >>
OutNoMatch == << IfUp, DescOther, BwLine >>
CannedOutputs == { OutMatch, OutNoMatch }

MainInit ==
    /\ pc = "load"
    /\ stage = "none"
    /\ peer = MainPeer
    /\ invKind \in InvKinds
    /\ IF invKind = "ok"
       THEN devices \in Inventories
       ELSE devices = <<>>
    /\ idx = 1 /\ out = None /\ open = {}
    /\ calls = [i \in DOMAIN devices |-> <<>>]
    /\ sections = <<>> /\ prompted = FALSE
    /\ stderrMsgs = 0 /\ exitCode = None /\ report = None
    /\ IdleFn /\ IdleParse

Call(op, res) == [op |-> op, res |-> res]
Logged(op, res) == [calls EXCEPT ![idx] = Append(@, Call(op, res))]

(* Lines 223-237.  An inventory file that parses to None makes the         *)
(* membership test of line 231 raise, which nothing catches: the           *)
(* interpreter prints the traceback and exits with code 1.                 *)
LoadInventory ==
    /\ pc = "load"
    /\ IF InputError(invKind)
       THEN /\ stderrMsgs' = stderrMsgs + 1
            /\ exitCode' = Some(2)
            /\ pc' = "exit"
       ELSE IF invKind = "null"
       THEN /\ stderrMsgs' = stderrMsgs + 1
            /\ exitCode' = Some(1)
            /\ pc' = "exit"
       ELSE /\ pc' = "prompt"
            /\ UNCHANGED <<stderrMsgs, exitCode>>
    /\ UNCHANGED <<stage, peer, fnVars, parseVars, invKind, devices, idx, out,
                   open, calls, sections, prompted, report>>

(* Lines 239-242.                                                          *)
Prompt ==
    /\ pc = "prompt"
    /\ prompted' = TRUE
    /\ sections' = <<>>
    /\ idx' = 1
    /\ pc' = "loop"
    /\ UNCHANGED <<stage, peer, fnVars, parseVars, invKind, devices, out,
                   open, calls, stderrMsgs, exitCode, report>>

(* Lines 243-247: a device of another platform is passed over.             *)
SkipDevice ==
    /\ pc = "loop"
    /\ idx <= Len(devices)
    /\ ~Supported(devices[idx].device_type)
    /\ idx' = idx + 1
    /\ UNCHANGED <<pc, stage, peer, fnVars, parseVars, invKind, devices, out,
                   open, calls, sections, prompted, stderrMsgs, exitCode,
                   report>>

(* collect_device returns (rs, errs), main appends the section of the      *)
(* device, lines 248-261, and goes on to the next device; the locals of    *)
(* the call are gone.                                                      *)
NextDevice(rs, errs) ==
    /\ sections' = Append(sections, SectionFor(devices[idx].host, rs, errs))
    /\ idx' = idx + 1
    /\ stage' = "none"
    /\ out' = None
    /\ output' = <<>> /\ blocks' = <<>> /\ bi' = 1 /\ rows' = <<>>
    /\ pc' = "loop"

(* Lines 202-207 and 213: collect_device returns ([], [message]).          *)
FailDevice(reason) ==
    NextDevice(<<>>, << ErrMsg(devices[idx].host, reason) >>)

(* Lines 248 and 190-199: ConnectHandler succeeds.                         *)
ConnectOk ==
    /\ pc = "loop"
    /\ idx <= Len(devices)
    /\ Supported(devices[idx].device_type)
    /\ calls' = Logged("open", "ok")
    /\ open' = open \cup { idx }
    /\ stage' = "send"
    /\ pc' = "collect"
    /\ UNCHANGED <<peer, fnVars, parseVars, invKind, devices, idx, out,
                   sections, prompted, stderrMsgs, exitCode, report>>

(* Faulty variant: the connection is tried again after a failure.          *)
ConnectFailRetry ==
    /\ pc = "loop"
    /\ idx <= Len(devices)
    /\ Supported(devices[idx].device_type)
    /\ Len(calls[idx]) < 2
    /\ \E reason \in { "auth failed", "timeout", "command error" } :
          calls' = Logged("open", reason)
    /\ UNCHANGED <<pc, stage, peer, fnVars, parseVars, invKind, devices, idx,
                   out, open, sections, prompted, stderrMsgs, exitCode, report>>
(* Lines 199 and 202-207: ConnectHandler raises.                           *)
ConnectFail ==
    /\ pc = "loop"
    /\ idx <= Len(devices)
    /\ Supported(devices[idx].device_type)
    /\ \E reason \in { "auth failed", "timeout", "command error" } :
          /\ calls' = Logged("open", reason)
          /\ FailDevice(reason)
    /\ UNCHANGED <<peer, fnVars, invKind, devices, open, prompted,
                   stderrMsgs, exitCode, report>>

(* Line 200: send_command returns the raw output.                          *)
SendOk ==
    /\ pc = "collect"
    /\ stage = "send"
    /\ \E o \in CannedOutputs : out' = Some(o)
    /\ calls' = Logged("cmd", "ok")
    /\ stage' = "disc"
    /\ UNCHANGED <<pc, peer, fnVars, parseVars, invKind, devices, idx, open,
                   sections, prompted, stderrMsgs, exitCode, report>>

(* Faulty variant: the exception of send_command is not caught.            *)
SendFailAbort ==
    /\ pc = "collect"
    /\ stage = "send"
    /\ \E reason \in { "timeout", "command error" } :
          calls' = Logged("cmd", reason)
    /\ stderrMsgs' = stderrMsgs + 1
    /\ exitCode' = Some(1)
    /\ pc' = "exit"
    /\ UNCHANGED <<stage, peer, fnVars, parseVars, invKind, devices, idx, out,
                   open, sections, prompted, report>>
(* Lines 200 and 204-207: send_command raises; disconnect is not reached.  *)
SendFail ==
    /\ pc = "collect"
    /\ stage = "send"
    /\ \E reason \in { "timeout", "command error" } :
          /\ calls' = Logged("cmd", reason)
          /\ FailDevice(reason)
    /\ UNCHANGED <<peer, fnVars, invKind, devices, open, prompted,
                   stderrMsgs, exitCode, report>>

(* Lines 201 and 209-210: disconnect returns and parse_cisco_xr is called  *)
(* on the output.                                                          *)
DisconnectOk ==
    /\ pc = "collect"
    /\ stage = "disc"
    /\ calls' = Logged("close", "ok")
    /\ open' = open \ { idx }
    /\ output' = out[1]
    /\ stage' = "split"
    /\ UNCHANGED <<pc, peer, fnVars, blocks, bi, rows, invKind, devices, idx,
                   out, sections, prompted, stderrMsgs, exitCode, report>>

(* Lines 201 and 206-207: disconnect raises; the output is dropped and     *)
(* the session may or may not have been torn down.                         *)
DisconnectFail ==
    /\ pc = "collect"
    /\ stage = "disc"
    /\ calls' = Logged("close", "command error")
    /\ \E closed \in BOOLEAN :
          open' = IF closed THEN open \ { idx } ELSE open
    /\ FailDevice("command error")
    /\ UNCHANGED <<peer, fnVars, invKind, devices, prompted,
                   stderrMsgs, exitCode, report>>

(* Lines 211 and 250-261: parse_cisco_xr has returned its rows.            *)
CollectOk ==
    /\ pc = "collect"
    /\ stage = "returned"
    /\ calls' = Logged("parse", "ok")
    /\ NextDevice(rows, <<>>)
    /\ UNCHANGED <<peer, fnVars, invKind, devices, open, prompted,
                   stderrMsgs, exitCode, report>>

(* Lines 212-213: an exception raised inside parse_cisco_xr.               *)
ParseFail ==
    /\ pc = "collect"
    /\ stage \in { "split", "blocks" }
    /\ calls' = Logged("parse", "parse error")
    /\ FailDevice("parse error")
    /\ UNCHANGED <<peer, fnVars, invKind, devices, open, prompted,
                   stderrMsgs, exitCode, report>>

(* Lines 263-268.                                                          *)
WriteReport ==
    /\ pc = "loop"
    /\ idx > Len(devices)
    /\ report' = Some(build_html(peer, sections))
    /\ exitCode' = Some(0)
    /\ pc' = "done"
    /\ UNCHANGED <<stage, peer, fnVars, parseVars, invKind, devices, idx, out,
                   open, calls, sections, prompted, stderrMsgs>>

Next ==
    \/ LoadInventory \/ Prompt \/ SkipDevice
    \/ ConnectOk \/ ConnectFail
    \/ SendOk \/ SendFail
    \/ DisconnectOk \/ DisconnectFail
    \/ ParseSplit \/ ParseLoop \/ ParseReturn
    \/ CollectOk \/ ParseFail
    \/ WriteReport

Init == MainInit
Spec == Init /\ [][Next]_vars

(* Every step of main is a blocking call that returns or raises (the       *)
(* transport enforces its timeouts), so a run that can take a step does.   *)
FairSpec == Spec /\ WF_vars(Next)

---------------------------------------------------------------------------
(* Properties.                                                             *)

(* The text a stanza carries on its own Description line (the first one),  *)
(* <<>> when the stanza has no Description line.                           *)
OwnDescription(blk) ==
    LET I == {i \in DOMAIN blk : IsDescLine(blk[i])}
    IN IF I = {} THEN <<>> ELSE Tail(blk[Min(I)])
NamesPeer(text, p) ==
    \E j \in DOMAIN text :
        text[j].t = "name" /\ Lower(text[j].s) = Lower(p)

(* C1: parse_cisco_xr appends a record for a stanza only if the stanza's   *)
(* own Description line carries the tag [NAME=<peer>], compared without    *)
(* regard to case; a stanza without the tag or without a Description line  *)
(* yields no record.                                                       *)
C1_RecordOnlyForTaggedStanza ==
    [][(stage = "blocks" /\ Len(rows') > Len(rows))
         => NamesPeer(OwnDescription(blocks[bi]), peer)]_vars

(* C5: a record whose input rate is reported as 0 bits/sec and whose       *)
(* available capacity is present and nonzero has a defined utilization     *)
(* ratio equal to 0, and is classified normal.                             *)
C5_ZeroInputGivesZeroRatio ==
    \A k \in DOMAIN rows :
        (rows[k].max_input_bps = Some(0) /\ Truthy(rows[k].avail_bps))
          => /\ rows[k].util # None
             /\ rows[k].util[1].num = 0
             /\ classify_util(rows[k].util).cls = "util-green"

(* C6: in every record, an absent observed input or an absent available    *)
(* capacity gives an absent utilization ratio; a present ratio is the      *)
(* quotient observed input / available capacity and is not negative.       *)
C6_RatioDefinedness ==
    \A k \in DOMAIN rows :
        LET r == rows[k] IN
        /\ (r.max_input_bps = None \/ r.avail_bps = None) => r.util = None
        /\ r.util # None =>
             /\ r.max_input_bps # None /\ r.avail_bps # None
             /\ r.util[1] = Ratio(r.max_input_bps[1], r.avail_bps[1])
             /\ r.util[1].num >= 0 /\ r.util[1].den > 0
C6_Witness ==
    /\ stage = "returned"
    /\ \E k \in DOMAIN rows :
          /\ rows[k].util # None
          /\ rows[k].util[1].num > rows[k].util[1].den

(* C3: classify_util gives the unknown tier and the placeholder glyph for  *)
(* an absent ratio, normal below 3/5, elevated from 3/5 to 4/5 with both   *)
(* ends included, critical above 4/5; a present ratio of 0 is normal.      *)
C3_Tiers ==
    pc = "classified" =>
        LET r == utilRes[1] IN
        IF util = None
        THEN r.cls = "" /\ r.str = Glyph
        ELSE LET n == util[1].num
                 d == util[1].den
             IN /\ r.str # Glyph
                /\ (5 * n < 3 * d) => r.cls = "util-green"
                /\ (5 * n >= 3 * d /\ 5 * n <= 4 * d) => r.cls = "util-orange"
                /\ (5 * n > 4 * d) => r.cls = "util-red"
                /\ (n = 0) => r.cls = "util-green"
C3_Witness ==
    /\ pc = "classified"
    /\ util = Some(Ratio(3, 5))
    /\ utilRes[1].cls = "util-orange"

(* C4: capacity_mismatch is false when an argument is absent or zero, and  *)
(* otherwise true exactly when |c - a| / max(c, a) > 2/100; swapping the   *)
(* arguments gives the same result, 100 against 80 is a mismatch and 100   *)
(* against 99 is not.                                                      *)
C4_Mismatch ==
    pc = "judged" =>
        /\ (conf_bps = None \/ avail_bps = None \/ conf_bps = Some(0)
              \/ avail_bps = Some(0)) => mmRes = Some(FALSE)
        /\ (Truthy(conf_bps) /\ Truthy(avail_bps)) =>
              LET c == conf_bps[1]
                  a == avail_bps[1]
                  diff == IF c >= a THEN c - a ELSE a - c
                  big == IF c >= a THEN c ELSE a
              IN mmRes = Some(50 * diff > big)
        /\ mmRes = Some(capacity_mismatch(avail_bps, conf_bps))
        /\ (conf_bps = Some(100) /\ avail_bps = Some(80)) => mmRes = Some(TRUE)
        /\ (conf_bps = Some(100) /\ avail_bps = Some(99)) => mmRes = Some(FALSE)
C4_Witness ==
    /\ pc = "judged"
    /\ conf_bps = Some(100) /\ avail_bps = Some(80)
    /\ mmRes = Some(TRUE)

(* Vocabulary for the device loop.                                         *)
IsCiscoFamily(dt) ==
    \E t \in { CiscoXr, IosXr, CiscoIosXr } :
        /\ Len(t) = Len(dt)
        /\ \A i \in DOMAIN t : LowerChar(dt[i]) = t[i]
Failed(i) == \E k \in DOMAIN calls[i] : calls[i][k].res # "ok"
FailureOf(i) ==
    calls[i][CHOOSE k \in DOMAIN calls[i] : calls[i][k].res # "ok"].res
CountOp(i, op) == Cardinality({k \in DOMAIN calls[i] : calls[i][k].op = op})
SecIndex(i) ==
    Cardinality({j \in 1..i : IsCiscoFamily(devices[j].device_type)})
IsErrorSection(sec) ==
    /\ sec.count = 1
    /\ ~sec.table.nomatch
    /\ sec.table.rows[1].ifname = << "-" >>
    /\ sec.table.rows[1].utilcls = ""
CarriesError(sec, host, reason) ==
    /\ IsErrorSection(sec)
    /\ sec.name = host
    /\ sec.table.rows[1].desc = << Tok(reason, host, 0) >>

(* C2: with a valid inventory no device failure ends the run: every        *)
(* supported device the loop has passed was attempted, a failed device has *)
(* its own section carrying the error text, the process never exits with   *)
(* an error, and the run reaches the end with the report written.          *)
C2_Safe ==
    invKind = "ok" =>
        /\ exitCode \in { None, Some(0) }
        /\ \A i \in DOMAIN devices :
              (i < idx /\ IsCiscoFamily(devices[i].device_type)) =>
                  /\ calls[i] # <<>>
                  /\ SecIndex(i) <= Len(sections)
                  /\ Failed(i) =>
                        CarriesError(sections[SecIndex(i)], devices[i].host,
                                     FailureOf(i))
        /\ pc = "done" =>
              /\ idx = Len(devices) + 1
              /\ report = Some(build_html(peer, sections))
C2_FailureIsLocal ==
    /\ []C2_Safe
    /\ (pc = "prompt") ~> (pc = "done" /\ report # None)
C2_Witness ==
    /\ pc = "done"
    /\ report # None
    /\ \E i, j \in DOMAIN devices :
          i < j /\ Failed(i) /\ calls[j] # <<>>

(* C7: on an unreadable inventory, an unknown peer or an empty device list *)
(* main reports once, exits non-zero and has done nothing else: no prompt, *)
(* no device contacted, no report.                                         *)
C7_InputErrorIsFatal ==
    invKind \in { "unreadable", "nopeers", "nopeer", "empty" } =>
        /\ ~prompted
        /\ report = None
        /\ open = {}
        /\ \A i \in DOMAIN calls : calls[i] = <<>>
        /\ pc \in { "load", "exit" }
        /\ pc = "exit" => /\ stderrMsgs = 1
                          /\ exitCode # None /\ exitCode[1] # 0
        /\ pc = "load" => stderrMsgs = 0 /\ exitCode = None
C7_Witness ==
    pc = "exit" /\ invKind = "empty" /\ exitCode = Some(2)

(* C8: at most one session is open at a time, and a session opened for a   *)
(* device is closed before the loop moves to the next device and before    *)
(* the run ends, also when the command run failed.                         *)
C8_SessionsClosed ==
    /\ Cardinality(open) <= 1
    /\ pc \in { "loop", "done" } => open = {}
    /\ \A i \in DOMAIN calls :
          CountOp(i, "cmd") = 1 /\ i < idx => CountOp(i, "close") = 1

(* C9: each device is the target of at most one session open and at most   *)
(* one command run, a section once appended is never changed, and a        *)
(* device whose remote call failed has an error section.                   *)
C9_NoRetry ==
    [][/\ \A i \in DOMAIN calls' :
            /\ CountOp(i, "open")' <= 1
            /\ CountOp(i, "cmd")' <= 1
            /\ Failed(i)' => (i < idx' /\ IsErrorSection(sections[SecIndex(i)])')
       /\ \A k \in DOMAIN sections :
            k \in DOMAIN sections' /\ sections'[k] = sections[k]]_vars
C9_Witness ==
    /\ pc = "done"
    /\ \E i \in DOMAIN devices :
          /\ Failed(i)
          /\ CountOp(i, "open") = 1
          /\ IsErrorSection(sections[SecIndex(i)])

(* C10: the sections are the devices of a supported platform, one each, in *)
(* inventory order; a device of another platform is never contacted and    *)
(* has no section; a device collected without failure has a section that   *)
(* is not an error section, an empty one when nothing matched.             *)
ExpectedNames(n) ==
    LET sup == SelectSeq(SubSeq(devices, 1, n),
                         LAMBDA d : IsCiscoFamily(d.device_type))
    IN [k \in DOMAIN sup |-> sup[k].host]
C10_SectionsFollowInventory ==
    invKind = "ok" =>
        /\ [k \in DOMAIN sections |-> sections[k].name]
             = ExpectedNames(idx - 1)
        /\ \A i \in DOMAIN devices :
              /\ ~IsCiscoFamily(devices[i].device_type) => calls[i] = <<>>
              /\ (i < idx /\ IsCiscoFamily(devices[i].device_type)
                    /\ ~Failed(i)) =>
                    LET sec == sections[SecIndex(i)] IN
                    /\ ~IsErrorSection(sec)
                    /\ sec.count = 0 <=> sec.table.nomatch
        /\ pc = "done" =>
              /\ Len(sections) = SecIndex(Len(devices))
              /\ report[1].devcount = Len(sections)
C10_Witness ==
    /\ pc = "done"
    /\ \E i, j \in DOMAIN devices :
          /\ i < j
          /\ ~IsCiscoFamily(devices[i].device_type)
          /\ calls[i] = <<>>
          /\ ~Failed(j) /\ calls[j] # <<>>
          /\ Len(sections) = 1
          /\ sections[1].name = devices[j].host
          /\ sections[1].count = 0
          /\ sections[1].table.nomatch

====
